---- MODULE Spec2Model ----
(***************************************************************************)
(* Model of scripts/primer_pair_profiling_batch.py: the batch driver that  *)
(* runs primer_pair_profiling.py on every forward-read file of a           *)
(* directory, tallies the (primer pair, count) lines into the global       *)
(* primer_pairs dictionary and prints the tallies as a tab-separated       *)
(* table.                                                                  *)
(*                                                                         *)
(* Python strings are sequences of code points (naturals); a Python dict   *)
(* is the sequence of its entries in insertion order.                      *)
(***************************************************************************)
EXTENDS Integers, Sequences, FiniteSets, TLC

\* ------------------------------------------------------------------------
\* Bounds
\* ------------------------------------------------------------------------

\* largest number of files the directory holds
MaxFiles == 2

\* ------------------------------------------------------------------------
\* Characters and str methods
\* ------------------------------------------------------------------------

TAB == 9
NL == 10

\* str.isspace for the code points below 128
IsSpace(c) == c \in {9, 10, 11, 12, 13, 28, 29, 30, 31, 32}

IsDigit(c) == c \in 48..57

RECURSIVE RStrip(_)
RStrip(s) ==
    IF s = <<>> THEN s
    ELSE IF IsSpace(s[Len(s)]) THEN RStrip(SubSeq(s, 1, Len(s) - 1))
    ELSE s

RECURSIVE LStrip(_)
LStrip(s) ==
    IF s = <<>> THEN s
    ELSE IF IsSpace(s[1]) THEN LStrip(Tail(s))
    ELSE s

Strip(s) == LStrip(RStrip(s))

StartsWith(s, t) == Len(t) <= Len(s) /\ SubSeq(s, 1, Len(t)) = t

EndsWith(s, t) == Len(t) <= Len(s) /\ SubSeq(s, Len(s) - Len(t) + 1, Len(s)) = t

\* str.replace(old, new) for a non-empty old: every non-overlapping
\* occurrence, scanning from the left
RECURSIVE Replace(_, _, _)
Replace(s, old, new) ==
    IF s = <<>> THEN <<>>
    ELSE IF StartsWith(s, old)
         THEN new \o Replace(SubSeq(s, Len(old) + 1, Len(s)), old, new)
         ELSE <<s[1]>> \o Replace(Tail(s), old, new)

\* str.split(sep) for a one-character sep: always at least one field
RECURSIVE Split(_, _)
Split(s, sep) ==
    IF \A i \in 1..Len(s) : s[i] # sep THEN <<s>>
    ELSE LET i == CHOOSE k \in 1..Len(s) :
                      s[k] = sep /\ \A j \in 1..(k - 1) : s[j] # sep
         IN  <<SubSeq(s, 1, i - 1)>> \o Split(SubSeq(s, i + 1, Len(s)), sep)

\* sep.join(parts) for a one-character sep
RECURSIVE Join(_, _)
Join(parts, sep) ==
    IF parts = <<>> THEN <<>>
    ELSE IF Len(parts) = 1 THEN parts[1]
    ELSE parts[1] \o <<sep>> \o Join(Tail(parts), sep)

\* str.lower for the code points below 128
RECURSIVE Lower(_)
Lower(s) ==
    IF s = <<>> THEN <<>>
    ELSE <<IF s[1] \in 65..90 THEN s[1] + 32 ELSE s[1]>> \o Lower(Tail(s))

\* a < b for two str: code point by code point, a proper prefix is smaller
StrLess(a, b) ==
    \E k \in 1..Len(b) :
        /\ \A j \in 1..(k - 1) : j <= Len(a) /\ a[j] = b[j]
        /\ (k > Len(a) \/ a[k] < b[k])

\* ------------------------------------------------------------------------
\* int() and str() of the stored counts
\* ------------------------------------------------------------------------

\* A stored count is what the tool printed (a str) or the int 0 that
\* print_tallies fills in.
StrVal(s) == [t |-> "str", n |-> 0, s |-> s]
IntZero == [t |-> "int", n |-> 0, s |-> <<>>]

\* the digits of an int literal after the sign
Unsigned(s) ==
    LET t == Strip(s)
    IN  IF t # <<>> /\ t[1] \in {43, 45} THEN Tail(t) ELSE t

\* int(s) does not raise ValueError: optional whitespace around, an
\* optional sign, digits with single underscores between them
IsIntLiteral(s) ==
    LET u == Unsigned(s)
    IN  /\ u # <<>>
        /\ \A i \in 1..Len(u) : IsDigit(u[i]) \/ u[i] = 95
        /\ IsDigit(u[1]) /\ IsDigit(u[Len(u)])
        /\ \A i \in 1..(Len(u) - 1) : ~(u[i] = 95 /\ u[i + 1] = 95)

RECURSIVE DigitsValue(_, _)
DigitsValue(u, acc) ==
    IF u = <<>> THEN acc
    ELSE IF u[1] = 95 THEN DigitsValue(Tail(u), acc)
    ELSE DigitsValue(Tail(u), 10 * acc + (u[1] - 48))

IntOfStr(s) ==
    LET t == Strip(s)
        v == DigitsValue(Unsigned(s), 0)
    IN  IF t[1] = 45 THEN 0 - v ELSE v

\* int(v) raises ValueError
IntRaises(v) == v.t = "str" /\ ~IsIntLiteral(v.s)

\* int(v)
IntOf(v) == IF v.t = "int" THEN v.n ELSE IntOfStr(v.s)

\* str(v): only the int 0 is ever converted
StrOf(v) == IF v.t = "int" THEN <<48>> ELSE v.s

\* ------------------------------------------------------------------------
\* The directory, the command line and the external tool
\* ------------------------------------------------------------------------

\* args.extension: fq
Extension == <<102, 113>>

DotExtension == <<46>> \o Extension

\* names a directory may hold: aR1.fq, BR1.fq, aR1.fq.fq, aR2.fq
DirNames ==
    { <<97, 82, 49, 46, 102, 113>>,
      <<66, 82, 49, 46, 102, 113>>,
      <<97, 82, 49, 46, 102, 113, 46, 102, 113>>,
      <<97, 82, 50, 46, 102, 113>> }

\* the glob pattern *R1*.<ext>
GlobMatches(name) ==
    /\ EndsWith(name, DotExtension)
    /\ \E i \in 1..(Len(name) - Len(DotExtension) - 1) :
           name[i] = 82 /\ name[i + 1] = 49

\* what primer_pair_profiling.py may print on a zero exit
ToolStdout ==
    { <<65, 9, 49, 48, 10, 66, 9, 53, 10>>,                \* A 10 / B 5
      <<65, 9, 55, 10>>,                                   \* A 7
      <<>>,                                                \* nothing
      <<97, 9, 48, 10>>,                                   \* a 0
      <<98, 9, 55, 10, 65, 9, 55, 10, 97, 9, 55, 10>>,     \* b 7 / A 7 / a 7
      <<66, 9, 120, 10>>,                                  \* B x
      <<65, 9, 43, 49, 9, 122, 10>>,                       \* A +1 z
      <<65, 10>>,                                          \* A
      <<49, 54, 83, 95, 86, 52, 9, 53, 48, 10,
        49, 54, 83, 95, 118, 51, 9, 53, 48, 10,
        73, 84, 83, 9, 56, 48, 10>> }          \* 16S_V4 50 / 16S_v3 50 / ITS 80

\* subprocess.run: the completed process
ToolResults ==
    [returncode : {0}, stdout : ToolStdout] \cup [returncode : {1}, stdout : {<<>>}]

\* ------------------------------------------------------------------------
\* State
\* ------------------------------------------------------------------------

VARIABLES
    pc,             \* position in main / tally_primers / print_tallies
    err,            \* the exception that ended the run, or "none"
    directory,      \* names in args.directory
    files,          \* get_files' result
    fi,             \* index in files of the file being processed
    file_names,     \* tally_primers' file_names list
    output,         \* the lines of the current file's tool output
    li,             \* index in output of the next line
    primer_pairs,   \* the global dict: entries [pair, counts] in insertion order
    out_file,       \* the output file: opened by this run, and its lines
    primer_totals,  \* print_tallies' dict: entries [pair, tot]
    ki,             \* index in primer_pairs of the next key to total
    sorted_items,   \* the sorted primer_totals items being printed
    ri,             \* index in sorted_items of the next row
    calls,          \* number of calls of print_tallies
    ingested,       \* history: the lines stored, [sample, items]
    tool_failed,    \* history: some tool run exited non-zero
    store_before,   \* history: primer_pairs when print_tallies was entered
    first_report    \* history: the file's lines when the first call ended

vars == <<pc, err, directory, files, fi, file_names, output, li, primer_pairs,
          out_file, primer_totals, ki, sorted_items, ri, calls, ingested,
          tool_failed, store_before, first_report>>

tallyVars == <<fi, file_names, output, li, primer_pairs, ingested, tool_failed>>
printVars == <<out_file, primer_totals, ki, sorted_items, ri, calls, store_before,
               first_report>>

\* ------------------------------------------------------------------------
\* dict helpers
\* ------------------------------------------------------------------------

\* position of a key in a dict, 0 when absent
KeyIndex(d, k) ==
    IF \E i \in 1..Len(d) : d[i].pair = k
    THEN CHOOSE i \in 1..Len(d) : d[i].pair = k
    ELSE 0

Keys(d) == [i \in 1..Len(d) |-> d[i].pair]

\* SetCount with the key folded to lower case
SetCount_folded(d, pair, file_name, value) ==
    LET i == KeyIndex(d, Lower(pair))
    IN  IF i = 0
        THEN Append(d, [pair |-> Lower(pair), counts |-> (file_name :> value)])
        ELSE [d EXCEPT ![i].counts = (file_name :> value) @@ @]

\* primer_pairs[pair][file_name] = value on the defaultdict(dict)
SetCount(d, pair, file_name, value) ==
    LET i == KeyIndex(d, pair)
    IN  IF i = 0
        THEN Append(d, [pair |-> pair, counts |-> (file_name :> value)])
        ELSE [d EXCEPT ![i].counts = (file_name :> value) @@ @]

\* ------------------------------------------------------------------------
\* main and tally_primers
\* ------------------------------------------------------------------------

\* orderings of a finite set
Orderings(S) ==
    { s \in [1..Cardinality(S) -> S] : \A i, j \in 1..Cardinality(S) : i # j => s[i] # s[j] }

Init ==
    /\ pc = "get_files"
    /\ err = "none"
    /\ directory \in { d \in SUBSET DirNames : Cardinality(d) <= MaxFiles }
    /\ files = <<>>
    /\ fi = 0
    /\ file_names = <<>>
    /\ output = <<>>
    /\ li = 0
    /\ primer_pairs = <<>>
    /\ out_file = [opened |-> FALSE, lines |-> <<>>]
    /\ primer_totals = <<>>
    /\ ki = 0
    /\ sorted_items = <<>>
    /\ ri = 0
    /\ calls = 0
    /\ ingested = <<>>
    /\ tool_failed = FALSE
    /\ store_before = <<>>
    /\ first_report = <<>>

\* get_files: the glob's matches, in the order the file system lists them
get_files ==
    /\ pc = "get_files"
    /\ files' \in Orderings({ n \in directory : GlobMatches(n) })
    /\ fi' = 1
    /\ pc' = "for_f"
    /\ UNCHANGED <<err, directory, file_names, output, li, primer_pairs,
                   ingested, tool_failed>>
    /\ UNCHANGED printVars

\* file_name.replace("." + args.extension, "")
SampleName(name) == Replace(name, DotExtension, <<>>)

\* check_returncode left out: the exit status is ignored
check_returncode_ignored(result) == FALSE

\* output.check_returncode() raises CalledProcessError
check_returncode(result) == result.returncode # 0

\* output.stdout.rstrip().split("\n")
OutputLines(result) == Split(RStrip(result.stdout), NL)

\* one iteration of "for f in files" up to the split of the tool's output
run_tool ==
    /\ pc = "for_f"
    /\ fi <= Len(files)
    /\ file_names' = Append(file_names, SampleName(files[fi]))
    /\ \E result \in ToolResults :
          /\ tool_failed' = (tool_failed \/ result.returncode # 0)
          /\ IF check_returncode(result)
             THEN /\ pc' = "raised"
                  /\ err' = "CalledProcessError"
                  /\ UNCHANGED <<output, li>>
             ELSE /\ pc' = "for_line"
                  /\ output' = OutputLines(result)
                  /\ li' = 1
                  /\ UNCHANGED err
    /\ UNCHANGED <<directory, files, fi, primer_pairs, ingested>>
    /\ UNCHANGED printVars

\* items[1] raises IndexError
NoSecondItem(items) == Len(items) < 2

\* one iteration of "for line in output"
ingest_line ==
    /\ pc = "for_line"
    /\ li <= Len(output)
    /\ LET items == Split(output[li], TAB)
           file_name == file_names[Len(file_names)]
       IN  IF NoSecondItem(items)
           THEN /\ pc' = "raised"
                /\ err' = "IndexError"
                /\ UNCHANGED <<li, primer_pairs, ingested>>
           ELSE /\ primer_pairs' =
                       SetCount(primer_pairs, items[1], file_name, StrVal(items[2]))
                /\ ingested' = Append(ingested, [sample |-> file_name, items |-> items])
                /\ li' = li + 1
                /\ UNCHANGED <<pc, err>>
    /\ UNCHANGED <<directory, files, fi, file_names, output, tool_failed>>
    /\ UNCHANGED printVars

\* "for line in output" is exhausted: on to the next file
next_file ==
    /\ pc = "for_line"
    /\ li > Len(output)
    /\ fi' = fi + 1
    /\ pc' = "for_f"
    /\ UNCHANGED <<err, directory, files, file_names, output, li, primer_pairs,
                   ingested, tool_failed>>
    /\ UNCHANGED printVars

\* "for f in files" is exhausted: tally_primers returns file_names to main
tally_return ==
    /\ pc = "for_f"
    /\ fi > Len(files)
    /\ pc' = "print_tallies"
    /\ UNCHANGED <<err, directory, files>>
    /\ UNCHANGED tallyVars
    /\ UNCHANGED printVars

\* ------------------------------------------------------------------------
\* print_tallies
\* ------------------------------------------------------------------------

\* file_names.sort(): a stable insertion of each name before the first
\* greater one
RECURSIVE InsertName(_, _)
InsertName(s, x) ==
    IF s = <<>> THEN <<x>>
    ELSE IF StrLess(x, s[1]) THEN <<x>> \o s
    ELSE <<s[1]>> \o InsertName(Tail(s), x)

RECURSIVE SortNames(_, _)
SortNames(names, acc) ==
    IF names = <<>> THEN acc
    ELSE SortNames(Tail(names), InsertName(acc, names[1]))

\* open(out_file, "a"): the file keeps its lines
open_a(f) == [opened |-> TRUE, lines |-> f.lines]

\* open(out_file, "w"): the file is created or truncated
open_w(f) == [opened |-> TRUE, lines |-> <<>>]

\* print(line, file=out_handle)
print_line(f, line) == [f EXCEPT !.lines = Append(@, line)]

\* "pair\t" + "\t".join(file_names)
HeaderLine(names) == <<112, 97, 105, 114, 9>> \o Join(names, TAB)

\* lines 148-156: sort the names, open the file, print the header
print_open ==
    /\ pc = "print_tallies"
    /\ file_names' = SortNames(file_names, <<>>)
    /\ out_file' = print_line(open_w(out_file), HeaderLine(file_names'))
    /\ primer_totals' = <<>>
    /\ sorted_items' = <<>>
    /\ ki' = 1
    /\ ri' = 0
    /\ calls' = calls + 1
    /\ store_before' = primer_pairs
    /\ pc' = "totals"
    /\ UNCHANGED <<err, directory, files, fi, output, li, primer_pairs,
                   ingested, tool_failed, first_report>>

\* the zero assigned without the membership test
ZeroFill_always(counts, file_n) == (file_n :> IntZero) @@ counts

\* if not file_n in primer_pairs[pair]: primer_pairs[pair][file_n] = 0
ZeroFill(counts, file_n) ==
    IF file_n \in DOMAIN counts THEN counts ELSE (file_n :> IntZero) @@ counts

\* "for file_n in file_names" of lines 159-163; int() may raise ValueError
RECURSIVE TotalLoop(_, _, _)
TotalLoop(counts, names, tot) ==
    IF names = <<>> THEN [counts |-> counts, tot |-> tot, raised |-> FALSE]
    ELSE LET c == ZeroFill(counts, names[1])
         IN  IF IntRaises(c[names[1]])
             THEN [counts |-> c, tot |-> tot, raised |-> TRUE]
             ELSE TotalLoop(c, Tail(names), tot + IntOf(c[names[1]]))

\* one iteration of "for pair in primer_pairs.keys()"
total_pair ==
    /\ pc = "totals"
    /\ ki <= Len(primer_pairs)
    /\ LET r == TotalLoop(primer_pairs[ki].counts, file_names, 0)
       IN  /\ primer_pairs' = [primer_pairs EXCEPT ![ki].counts = r.counts]
           /\ IF r.raised
              THEN /\ pc' = "raised"
                   /\ err' = "ValueError"
                   /\ UNCHANGED <<primer_totals, ki>>
              ELSE /\ primer_totals' =
                          Append(primer_totals, [pair |-> primer_pairs[ki].pair, tot |-> r.tot])
                   /\ ki' = ki + 1
                   /\ UNCHANGED <<pc, err>>
    /\ UNCHANGED <<directory, files, fi, file_names, output, li, out_file,
                   sorted_items, ri, calls, ingested, tool_failed,
                   store_before, first_report>>

\* the key with the total not negated
SortKey_ascending(item) == [tot |-> item.tot, name |-> Lower(item.pair)]

\* the key with the identity not lowered
SortKey_cased(item) == [tot |-> 0 - item.tot, name |-> item.pair]

\* key=lambda x: (-x[1], x[0].lower())
SortKey(item) == [tot |-> 0 - item.tot, name |-> Lower(item.pair)]

\* k1 < k2 for two key tuples
KeyLess(k1, k2) ==
    k1.tot < k2.tot \/ (k1.tot = k2.tot /\ StrLess(k1.name, k2.name))

\* sorted(): a stable insertion of each item before the first one with a
\* greater key
RECURSIVE InsertItem(_, _)
InsertItem(s, x) ==
    IF s = <<>> THEN <<x>>
    ELSE IF KeyLess(SortKey(x), SortKey(s[1])) THEN <<x>> \o s
    ELSE <<s[1]>> \o InsertItem(Tail(s), x)

RECURSIVE SortItems(_, _)
SortItems(items, acc) ==
    IF items = <<>> THEN acc
    ELSE SortItems(Tail(items), InsertItem(acc, items[1]))

\* line 167: the totals loop is exhausted, sorted() builds the row order
sort_items ==
    /\ pc = "totals"
    /\ ki > Len(primer_pairs)
    /\ sorted_items' = SortItems(primer_totals, <<>>)
    /\ ri' = 1
    /\ pc' = "rows"
    /\ UNCHANGED <<err, directory, files, out_file, primer_totals, ki, calls,
                   store_before, first_report>>
    /\ UNCHANGED tallyVars

\* the cells taken in the reverse order of the names
Freqs_reversed(d, pair, names) ==
    [i \in 1..Len(names) |-> StrOf(d[KeyIndex(d, pair)].counts[names[Len(names) + 1 - i]])]

\* freqs of lines 168-174: the cells of a pair in the order of the names
Freqs(d, pair, names) ==
    [i \in 1..Len(names) |-> StrOf(d[KeyIndex(d, pair)].counts[names[i]])]

\* items[0] + "\t" + "\t".join(freqs)
RowLine(d, pair, names) == pair \o <<TAB>> \o Join(Freqs(d, pair, names), TAB)

\* one iteration of the loop of lines 167-175
write_row ==
    /\ pc = "rows"
    /\ ri <= Len(sorted_items)
    /\ out_file' = print_line(out_file, RowLine(primer_pairs, sorted_items[ri].pair, file_names))
    /\ ri' = ri + 1
    /\ UNCHANGED <<pc, err, directory, files, primer_totals, ki, sorted_items,
                   calls, store_before, first_report>>
    /\ UNCHANGED tallyVars

\* the rows are exhausted: print_tallies returns and main ends
print_return ==
    /\ pc = "rows"
    /\ ri > Len(sorted_items)
    /\ pc' = "done"
    /\ UNCHANGED <<err, directory, files>>
    /\ UNCHANGED tallyVars
    /\ UNCHANGED printVars

\* print_tallies(file_names, out_file) called once more by a caller that
\* holds the same list and the same global dict
print_again ==
    /\ calls = 1
    /\ pc = "done" \/ (pc = "raised" /\ err = "ValueError")
    /\ pc' = "print_tallies"
    /\ err' = "none"
    /\ first_report' = out_file.lines
    /\ UNCHANGED <<directory, files, out_file, primer_totals, ki, sorted_items,
                   ri, calls, store_before>>
    /\ UNCHANGED tallyVars

Next ==
    \/ get_files
    \/ run_tool
    \/ ingest_line
    \/ next_file
    \/ tally_return
    \/ print_open
    \/ total_pair
    \/ sort_items
    \/ write_row
    \/ print_return

Spec == Init /\ [][Next]_vars

\* the same program with a caller that materializes twice
NextAgain == Next \/ print_again

SpecAgain == Init /\ [][NextAgain]_vars

\* ------------------------------------------------------------------------
\* The report as a reader of the file sees it
\* ------------------------------------------------------------------------

Range(f) == { f[i] : i \in DOMAIN f }

NoDuplicates(f) == \A i, j \in DOMAIN f : i # j => f[i] # f[j]

HeaderWritten == Len(out_file.lines) >= 1

\* the sample columns of the header: its fields after the first
HeaderColumns == Tail(Split(out_file.lines[1], TAB))

\* the data rows: the lines after the header
DataRows == SubSeq(out_file.lines, 2, Len(out_file.lines))

RowId(row) == Split(row, TAB)[1]

RowCells(row) == Tail(Split(row, TAB))

RowIds == [i \in 1..Len(DataRows) |-> RowId(DataRows[i])]

RECURSIVE SumCells(_)
SumCells(cells) ==
    IF cells = <<>> THEN 0 ELSE IntOfStr(cells[1]) + SumCells(Tail(cells))

RowTotal(row) == SumCells(RowCells(row))

\* the primer pairs that were the first field of a stored line
IngestedPairs == { ingested[i].items[1] : i \in 1..Len(ingested) }

\* the count a reader expects for (pair, sample): the second field of the
\* last line stored for it, 0 when there is none
ExpectedCell(pair, sample) ==
    LET hits == { i \in 1..Len(ingested) :
                     ingested[i].items[1] = pair /\ ingested[i].sample = sample }
    IN  IF hits = {} THEN <<48>>
        ELSE ingested[CHOOSE i \in hits : \A j \in hits : j <= i].items[2]

ITS == <<73, 84, 83>>
P16S_V4 == <<49, 54, 83, 95, 86, 52>>
P16S_v3 == <<49, 54, 83, 95, 118, 51>>

\* ------------------------------------------------------------------------
\* C1
\* ------------------------------------------------------------------------

\* C1: the data rows are written by total descending, equal totals by the
\* lower-cased identity ascending, and rows equal in both keys in the
\* insertion order of the store.
C1_RowOrder ==
    /\ \A i \in 1..(Len(DataRows) - 1) :
          LET r1 == DataRows[i]
              r2 == DataRows[i + 1]
          IN  \/ RowTotal(r1) > RowTotal(r2)
              \/ /\ RowTotal(r1) = RowTotal(r2)
                 /\ ~StrLess(Lower(RowId(r2)), Lower(RowId(r1)))
    /\ \A i, j \in 1..Len(DataRows) :
          ( /\ i < j
            /\ RowTotal(DataRows[i]) = RowTotal(DataRows[j])
            /\ Lower(RowId(DataRows[i])) = Lower(RowId(DataRows[j])) )
          => KeyIndex(primer_pairs, RowId(DataRows[i]))
                < KeyIndex(primer_pairs, RowId(DataRows[j]))

\* a finished report with a tie in both keys and two different totals
C1_Witness ==
    /\ pc = "done"
    /\ \E i, j \in 1..Len(DataRows) :
          /\ i < j
          /\ RowTotal(DataRows[i]) = RowTotal(DataRows[j])
          /\ Lower(RowId(DataRows[i])) = Lower(RowId(DataRows[j]))
    /\ \E i, j \in 1..Len(DataRows) : RowTotal(DataRows[i]) > RowTotal(DataRows[j])
    /\ \E i, j \in 1..Len(DataRows) :
          /\ RowTotal(DataRows[i]) = RowTotal(DataRows[j])
          /\ StrLess(Lower(RowId(DataRows[i])), Lower(RowId(DataRows[j])))

\* ------------------------------------------------------------------------
\* C2
\* ------------------------------------------------------------------------

\* the store holds exactly 16S_V4 (50), 16S_v3 (50) and ITS (80) and the
\* report is finished
C2_Case ==
    /\ pc = "done"
    /\ Range(primer_totals) = { [pair |-> P16S_V4, tot |-> 50],
                                [pair |-> P16S_v3, tot |-> 50],
                                [pair |-> ITS, tot |-> 80] }

\* C2 as stated: the rows come out as ITS, 16S_V4, 16S_v3.
C2_Original == C2_Case => RowIds = <<ITS, P16S_V4, P16S_v3>>

\* C2 amended: the rows come out as ITS, 16S_v3, 16S_V4, since 16s_v3
\* sorts before 16s_v4.
C2_Amended == C2_Case => RowIds = <<ITS, P16S_v3, P16S_V4>>

C2_Witness == C2_Case /\ Len(DataRows) = 3

\* ------------------------------------------------------------------------
\* C3
\* ------------------------------------------------------------------------

\* C3: every data row has one cell per header column, and the cell under
\* sample s of the row of pair p is the count stored for (p, s), 0 when
\* none was.
C3_CellsAligned ==
    \A i \in 1..Len(DataRows) :
        LET cells == RowCells(DataRows[i])
        IN  /\ Len(cells) = Len(HeaderColumns)
            /\ \A j \in 1..Len(cells) :
                  cells[j] = ExpectedCell(RowId(DataRows[i]), HeaderColumns[j])

\* a finished report with two different columns, a row with a filled-in 0
\* and a row whose two cells differ
C3_Witness ==
    /\ pc = "done"
    /\ Len(HeaderColumns) = 2
    /\ HeaderColumns[1] # HeaderColumns[2]
    /\ \E i \in 1..Len(DataRows) :
          \E s \in Range(HeaderColumns) :
              \A k \in 1..Len(ingested) :
                  ~(ingested[k].items[1] = RowId(DataRows[i]) /\ ingested[k].sample = s)
    /\ \E i \in 1..Len(DataRows) :
          /\ RowCells(DataRows[i])[1] # RowCells(DataRows[i])[2]
          /\ RowCells(DataRows[i])[1] # <<48>>
          /\ RowCells(DataRows[i])[2] # <<48>>

\* ------------------------------------------------------------------------
\* C4
\* ------------------------------------------------------------------------

\* C4: no row is written for a pair that was not ingested, and when
\* print_tallies has returned every ingested pair has exactly one row.
C4_RowSet ==
    /\ Range(RowIds) \subseteq IngestedPairs
    /\ pc = "done" =>
          /\ Range(RowIds) = IngestedPairs
          /\ NoDuplicates(RowIds)
          /\ Len(RowIds) = Cardinality(IngestedPairs)

\* a finished report after two files, with a pair seen in both files and
\* two pairs that differ only in case
C4_Witness ==
    /\ pc = "done"
    /\ Len(files) = 2
    /\ \E i, j \in 1..Len(ingested) :
          /\ ingested[i].items[1] = ingested[j].items[1]
          /\ ingested[i].sample # ingested[j].sample
    /\ \E p, q \in IngestedPairs : p # q /\ Lower(p) = Lower(q)

\* ------------------------------------------------------------------------
\* C5
\* ------------------------------------------------------------------------

\* C5 as stated, for a non-empty list of files: the header has as many
\* sample columns as there are distinct sample names, in ascending order.
C5_Claim ==
    (HeaderWritten /\ files # <<>>) =>
        /\ Len(HeaderColumns) = Cardinality(Range(file_names))
        /\ \A i \in 1..(Len(HeaderColumns) - 1) :
              ~StrLess(HeaderColumns[i + 1], HeaderColumns[i])

\* ------------------------------------------------------------------------
\* C6
\* ------------------------------------------------------------------------

\* C6: once a tool run has exited non-zero the run has ended with
\* CalledProcessError at that file: no later file was started,
\* print_tallies was not entered and the output file was not opened.
C6_ToolFailureAborts ==
    tool_failed =>
        /\ pc = "raised"
        /\ err = "CalledProcessError"
        /\ Len(file_names) = fi
        /\ calls = 0
        /\ ~out_file.opened
        /\ out_file.lines = <<>>

\* the tool fails on the second file, after lines of the first were stored
C6_Witness ==
    /\ tool_failed
    /\ fi = 2
    /\ primer_pairs # <<>>

\* ------------------------------------------------------------------------
\* C7
\* ------------------------------------------------------------------------

\* a line of exactly two fields whose second field int() accepts
WellFormed(items) == Len(items) = 2 /\ IsIntLiteral(items[2])

\* C7 as stated: no line that is not well formed is stored, and no part of
\* the report is written after one.
C7_Claim ==
    /\ \A i \in 1..Len(ingested) : WellFormed(ingested[i].items)
    /\ (pc = "for_line" /\ li > 1) => WellFormed(Split(output[li - 1], TAB))
    /\ out_file.opened => \A i \in 1..Len(ingested) : WellFormed(ingested[i].items)

\* ------------------------------------------------------------------------
\* C8
\* ------------------------------------------------------------------------

\* C8 as stated: when print_tallies has returned the store is what it was
\* when print_tallies was entered.
C8_Original == pc = "done" => primer_pairs = store_before

\* C8 amended: from its entry on, print_tallies keeps the pairs and their
\* order, keeps every entry the store held with its value, and adds only
\* entries with the int 0 for names of file_names; when it has returned
\* every pair has an entry for every name of file_names.
C8_Amended ==
    calls >= 1 =>
        /\ Keys(primer_pairs) = Keys(store_before)
        /\ \A i \in 1..Len(store_before) :
              LET old == store_before[i].counts
                  new == primer_pairs[i].counts
              IN  /\ DOMAIN old \subseteq DOMAIN new
                  /\ \A s \in DOMAIN old : new[s] = old[s]
                  /\ \A s \in (DOMAIN new) \ (DOMAIN old) :
                        new[s] = IntZero /\ s \in Range(file_names)
                  /\ pc = "done" => DOMAIN new = DOMAIN old \cup Range(file_names)

\* print_tallies has returned and has added an entry to the store
C8_Witness ==
    /\ pc = "done"
    /\ primer_pairs # store_before
    /\ \E i \in 1..Len(store_before) :
          \E s \in DOMAIN store_before[i].counts :
              store_before[i].counts[s] # StrVal(<<48>>)

\* ------------------------------------------------------------------------
\* C9
\* ------------------------------------------------------------------------

\* C9: when a second call of print_tallies has ended, the file holds the
\* lines it held when the first call had ended.
C9_Idempotent ==
    (calls = 2 /\ pc \in {"done", "raised"}) => out_file.lines = first_report

\* a second call has returned a report with a filled-in 0 and three lines
C9_Witness ==
    /\ calls = 2
    /\ pc = "done"
    /\ Len(out_file.lines) >= 3
    /\ \E i \in 1..Len(primer_pairs) :
          \E s \in DOMAIN primer_pairs[i].counts : primer_pairs[i].counts[s] = IntZero

\* ------------------------------------------------------------------------
\* C10
\* ------------------------------------------------------------------------

\* C10 as stated: with no file discovered the run ends without an error
\* and the report is the one line "pair".
C10_Claim ==
    (files = <<>> /\ pc \in {"done", "raised"}) =>
        /\ pc = "done"
        /\ err = "none"
        /\ out_file.lines = << <<112, 97, 105, 114>> >>

====
